---- MODULE Spec2Model ----
(***************************************************************************)
(* Path-addressed document mutation of the JSON visual editor:             *)
(* NodeModal (projection of a selected node into edit text, coercion of    *)
(* the edited text, installation of the value at the node's path, and the  *)
(* edit session around it), and the text pane TextEditor (typing and its   *)
(* asynchronous Save), from src/src/features/editor/TextEditor.tsx.        *)
(*                                                                         *)
(* Texts are sequences of one-character strings, so that JSON.stringify,   *)
(* JSON.parse, Number() and template conversion are modelled by what they  *)
(* do to the characters.  JavaScript values are tagged tuples:             *)
(*   <<"null">>  <<"bool", b>>  <<"num", n>>  <<"inf">>  <<"nan">>         *)
(*   <<"str", chars>>  <<"arr", <<v1, ...>>>>                              *)
(*   <<"obj", << <<key1, v1>>, ... >>>>   (own properties, in JS order)    *)
(*   <<"ninf">> (-Infinity)   <<"undef">> (undefined, or an array hole)     *)
(* Numbers are integers (no fraction or exponent syntax is modelled; the   *)
(* texts the model draws never contain ".", "e" after a digit or "E").     *)
(***************************************************************************)
EXTENDS Integers, Sequences, FiniteSets, TLC

----------------------------------------------------------------------------
(* JavaScript values *)

Null == <<"null">>
Undefined == <<"undef">>
Infinity == <<"inf">>
NegInfinity == <<"ninf">>
NaN == <<"nan">>
Bool(b) == <<"bool", b>>
Num(n) == <<"num", n>>
Str(s) == <<"str", s>>
Arr(es) == <<"arr", es>>
Obj(ms) == <<"obj", ms>>

Tag(v) == v[1]
IsObj(v) == Tag(v) = "obj"

Digits == <<"0", "1", "2", "3", "4", "5", "6", "7", "8", "9">>
IsDigit(c) == \E d \in 1..10 : Digits[d] = c
DigitVal(c) == (CHOOSE d \in 1..10 : Digits[d] = c) - 1

RECURSIVE NatToText(_)
\* decimal digits of a natural number (Number::toString)
NatToText(n) ==
  IF n < 10 THEN <<Digits[n + 1]>>
  ELSE NatToText(n \div 10) \o <<Digits[(n % 10) + 1]>>

IntToText(n) == IF n < 0 THEN <<"-">> \o NatToText(0 - n) ELSE NatToText(n)

IsWs(c) == c \in {" ", "\n", "\t", "\r"}

----------------------------------------------------------------------------
(* Own properties of an ordinary JavaScript object: integer-like keys      *)
(* first, in ascending numeric order, then the other keys in insertion     *)
(* order (OrdinaryOwnPropertyKeys).                                        *)

\* a canonical array index: "0", or digits without a leading zero
IsIndexKey(k) ==
  /\ Len(k) > 0
  /\ \A i \in 1..Len(k) : IsDigit(k[i])
  /\ (Len(k) > 1 => k[1] # "0")

RECURSIVE TextToNat(_)
TextToNat(k) ==
  IF Len(k) = 0 THEN 0
  ELSE 10 * TextToNat(SubSeq(k, 1, Len(k) - 1)) + DigitVal(k[Len(k)])

HasKey(ms, k) == \E i \in 1..Len(ms) : ms[i][1] = k
KeyPos(ms, k) == CHOOSE i \in 1..Len(ms) : ms[i][1] = k

\* number of members that stay in front of a new member with key k
InsertPos(ms, k) ==
  IF IsIndexKey(k)
  THEN Cardinality({i \in 1..Len(ms) :
                      IsIndexKey(ms[i][1]) /\ TextToNat(ms[i][1]) < TextToNat(k)})
  ELSE Len(ms)

\* an assignment that deletes the key and adds it again, at the end
SetMemberMovesKey(ms, k, v) ==
  SelectSeq(ms, LAMBDA m : m[1] # k) \o << <<k, v>> >>

\* obj[k] = v on the members of an ordinary object
SetMember(ms, k, v) ==
  IF HasKey(ms, k)
  THEN [ms EXCEPT ![KeyPos(ms, k)] = <<k, v>>]
  ELSE LET p == InsertPos(ms, k)
       IN SubSeq(ms, 1, p) \o << <<k, v>> >> \o SubSeq(ms, p + 1, Len(ms))

----------------------------------------------------------------------------
(* JSON.stringify(value, null, 2) *)

RECURSIVE Spaces(_)
Spaces(n) == IF n = 0 THEN <<>> ELSE <<" ">> \o Spaces(n - 1)

RECURSIVE QuoteChars(_)
\* the characters of a string inside its quotes, escaped
QuoteChars(s) ==
  IF Len(s) = 0 THEN <<>>
  ELSE (CASE Head(s) = "\"" -> <<"\\", "\"">>
          [] Head(s) = "\\" -> <<"\\", "\\">>
          [] Head(s) = "\n" -> <<"\\", "n">>
          [] Head(s) = "\t" -> <<"\\", "t">>
          [] Head(s) = "\r" -> <<"\\", "r">>
          [] OTHER -> <<Head(s)>>) \o QuoteChars(Tail(s))

Quote(s) == <<"\"">> \o QuoteChars(s) \o <<"\"">>

RECURSIVE SerializeValue(_, _)
RECURSIVE SerializeElems(_, _, _)
RECURSIVE SerializeMembers(_, _, _)

\* SerializeJSONProperty with gap "  ": ind is the current indentation
SerializeValue(v, ind) ==
  CASE Tag(v) = "null" -> <<"n", "u", "l", "l">>
    [] Tag(v) \in {"inf", "ninf", "undef"} -> <<"n", "u", "l", "l">>
    [] Tag(v) = "nan" -> <<"n", "u", "l", "l">>
    [] Tag(v) = "bool" -> IF v[2] THEN <<"t", "r", "u", "e">>
                                  ELSE <<"f", "a", "l", "s", "e">>
    [] Tag(v) = "num" -> IntToText(v[2])
    [] Tag(v) = "str" -> Quote(v[2])
    [] Tag(v) = "arr" ->
         IF Len(v[2]) = 0 THEN <<"[", "]">>
         ELSE <<"[", "\n">> \o SerializeElems(v[2], 1, ind + 2)
              \o <<"\n">> \o Spaces(ind) \o <<"]">>
    [] Tag(v) = "obj" ->
         IF Len(v[2]) = 0 THEN <<"{", "}">>
         ELSE <<"{", "\n">> \o SerializeMembers(v[2], 1, ind + 2)
              \o <<"\n">> \o Spaces(ind) \o <<"}">>

SerializeElems(es, i, ind) ==
  Spaces(ind) \o SerializeValue(es[i], ind)
  \o (IF i = Len(es) THEN <<>>
      ELSE <<",", "\n">> \o SerializeElems(es, i + 1, ind))

SerializeMembers(ms, i, ind) ==
  Spaces(ind) \o Quote(ms[i][1]) \o <<":", " ">> \o SerializeValue(ms[i][2], ind)
  \o (IF i = Len(ms) THEN <<>>
      ELSE <<",", "\n">> \o SerializeMembers(ms, i + 1, ind))

\* JSON.stringify(v, null, 2); a top-level undefined is not modelled (no
\* caller passes one)
JSONstringify(v) == SerializeValue(v, 0)

----------------------------------------------------------------------------
(* JSON.parse(text): a recursive-descent reading of the JSON grammar.      *)
(* A result is [ok, v, i]: whether a value was read, the value, and the    *)
(* position after it.  String escapes other than \" \\ \/ \n \t \r are     *)
(* rejected (the texts the model draws contain none).                      *)

Fail == [ok |-> FALSE, v |-> Undefined, i |-> 0]
Ok(v, i) == [ok |-> TRUE, v |-> v, i |-> i]

\* the character at position i, "" beyond the end
At(s, i) == IF i >= 1 /\ i <= Len(s) THEN s[i] ELSE ""

RECURSIVE SkipWs(_, _)
SkipWs(s, i) == IF IsWs(At(s, i)) THEN SkipWs(s, i + 1) ELSE i

RECURSIVE DigitsEnd(_, _)
\* the first position from i on that holds no digit
DigitsEnd(s, i) == IF IsDigit(At(s, i)) THEN DigitsEnd(s, i + 1) ELSE i

RECURSIVE ScanString(_, _, _)
\* i is after the opening quote; acc holds the characters read so far
ScanString(s, i, acc) ==
  LET c == At(s, i) IN
  CASE c = "" -> Fail
    [] c = "\"" -> Ok(Str(acc), i + 1)
    [] c \in {"\n", "\t", "\r"} -> Fail
    [] c = "\\" ->
         LET e == At(s, i + 1) IN
         CASE e \in {"\"", "\\", "/"} -> ScanString(s, i + 2, Append(acc, e))
           [] e = "n" -> ScanString(s, i + 2, Append(acc, "\n"))
           [] e = "t" -> ScanString(s, i + 2, Append(acc, "\t"))
           [] e = "r" -> ScanString(s, i + 2, Append(acc, "\r"))
           [] OTHER -> Fail
    [] OTHER -> ScanString(s, i + 1, Append(acc, c))

\* -?(0|[1-9][0-9]*)
ParseNumber(s, i) ==
  LET neg == At(s, i) = "-"
      j == IF neg THEN i + 1 ELSE i
      e == IF At(s, j) = "0" THEN j + 1 ELSE DigitsEnd(s, j)
      n == TextToNat(SubSeq(s, j, e - 1))
  IN IF e = j THEN Fail ELSE Ok(Num(IF neg THEN 0 - n ELSE n), e)

ParseLiteral(s, i, word, v) ==
  IF i + Len(word) - 1 <= Len(s) /\ SubSeq(s, i, i + Len(word) - 1) = word
  THEN Ok(v, i + Len(word))
  ELSE Fail

RECURSIVE ParseValue(_, _)
RECURSIVE ParseElems(_, _, _)
RECURSIVE ParseMembers(_, _, _)

\* i is at the first character of the value (white space already skipped)
ParseValue(s, i) ==
  LET c == At(s, i) IN
  CASE c = "{" ->
         LET j == SkipWs(s, i + 1)
         IN IF At(s, j) = "}" THEN Ok(Obj(<<>>), j + 1) ELSE ParseMembers(s, j, <<>>)
    [] c = "[" ->
         LET j == SkipWs(s, i + 1)
         IN IF At(s, j) = "]" THEN Ok(Arr(<<>>), j + 1) ELSE ParseElems(s, j, <<>>)
    [] c = "\"" -> ScanString(s, i + 1, <<>>)
    [] c = "-" \/ IsDigit(c) -> ParseNumber(s, i)
    [] c = "t" -> ParseLiteral(s, i, <<"t", "r", "u", "e">>, Bool(TRUE))
    [] c = "f" -> ParseLiteral(s, i, <<"f", "a", "l", "s", "e">>, Bool(FALSE))
    [] c = "n" -> ParseLiteral(s, i, <<"n", "u", "l", "l">>, Null)
    [] OTHER -> Fail

\* i is at the first character of an element; es holds the elements read
ParseElems(s, i, es) ==
  LET r == ParseValue(s, i)
      q == SkipWs(s, r.i)
  IN IF ~r.ok THEN Fail
     ELSE CASE At(s, q) = "," -> ParseElems(s, SkipWs(s, q + 1), Append(es, r.v))
            [] At(s, q) = "]" -> Ok(Arr(Append(es, r.v)), q + 1)
            [] OTHER -> Fail

\* i is at the quote of a member's key; ms holds the members read.  A key
\* read twice keeps its first place and takes the last value.
ParseMembers(s, i, ms) ==
  LET k == IF At(s, i) = "\"" THEN ScanString(s, i + 1, <<>>) ELSE Fail
      p == SkipWs(s, k.i)
      r == IF k.ok /\ At(s, p) = ":" THEN ParseValue(s, SkipWs(s, p + 1)) ELSE Fail
      q == SkipWs(s, r.i)
  IN IF ~r.ok THEN Fail
     ELSE CASE At(s, q) = "," ->
                 ParseMembers(s, SkipWs(s, q + 1), SetMember(ms, k.v[2], r.v))
            [] At(s, q) = "}" -> Ok(Obj(SetMember(ms, k.v[2], r.v)), q + 1)
            [] OTHER -> Fail

\* JSON.parse(s): [ok, v]; ~ok stands for the SyntaxError it throws
JSONparse(s) ==
  LET r == ParseValue(s, SkipWs(s, 1))
  IN IF r.ok /\ SkipWs(s, r.i) = Len(s) + 1
     THEN [ok |-> TRUE, v |-> r.v]
     ELSE [ok |-> FALSE, v |-> Undefined]

----------------------------------------------------------------------------
(* String and number conversions used by the handlers *)

RECURSIVE TrimStart(_)
TrimStart(s) == IF Len(s) > 0 /\ IsWs(Head(s)) THEN TrimStart(Tail(s)) ELSE s

RECURSIVE TrimEnd(_)
TrimEnd(s) ==
  IF Len(s) > 0 /\ IsWs(s[Len(s)]) THEN TrimEnd(SubSeq(s, 1, Len(s) - 1)) ELSE s

\* String.prototype.trim
Trim(s) == TrimEnd(TrimStart(s))

UpperCase == <<"A", "B", "C", "D", "E", "F", "G", "H", "I", "J", "K", "L", "M",
               "N", "O", "P", "Q", "R", "S", "T", "U", "V", "W", "X", "Y", "Z">>
LowerCase == <<"a", "b", "c", "d", "e", "f", "g", "h", "i", "j", "k", "l", "m",
               "n", "o", "p", "q", "r", "s", "t", "u", "v", "w", "x", "y", "z">>

LowerChar(c) ==
  IF \E i \in 1..26 : UpperCase[i] = c
  THEN LowerCase[CHOOSE i \in 1..26 : UpperCase[i] = c]
  ELSE c

\* String.prototype.toLowerCase
ToLowerCase(s) == [i \in 1..Len(s) |-> LowerChar(s[i])]

InfinityText == <<"I", "n", "f", "i", "n", "i", "t", "y">>

\* Number(raw), StringToNumber: white space is trimmed, the empty string is
\* 0, a signed run of digits is its value, [+-]Infinity is infinite, and any
\* other text is NaN (hexadecimal, fraction and exponent forms are not
\* modelled).
Number(raw) ==
  LET t == Trim(raw)
      signed == Len(t) > 0 /\ t[1] \in {"+", "-"}
      body == IF signed THEN Tail(t) ELSE t
      neg == signed /\ t[1] = "-"
  IN CASE Len(t) = 0 -> Num(0)
       [] body = InfinityText -> IF neg THEN NegInfinity ELSE Infinity
       [] Len(body) > 0 /\ (\A i \in 1..Len(body) : IsDigit(body[i])) ->
            Num(IF neg THEN 0 - TextToNat(body) ELSE TextToNat(body))
       [] OTHER -> NaN

\* `${value}` of a row's value (ToString)
TemplateText(v) ==
  CASE Tag(v) = "str" -> v[2]
    [] Tag(v) = "num" -> IntToText(v[2])
    [] Tag(v) = "bool" -> IF v[2] THEN <<"t", "r", "u", "e">>
                                  ELSE <<"f", "a", "l", "s", "e">>
    [] Tag(v) = "null" -> <<"n", "u", "l", "l">>
    [] Tag(v) = "inf" -> InfinityText
    [] Tag(v) = "ninf" -> <<"-">> \o InfinityText
    [] Tag(v) = "nan" -> <<"N", "a", "N">>
    [] Tag(v) = "undef" -> <<"u", "n", "d", "e", "f", "i", "n", "e", "d">>

\* !x for a row's key: undefined, null and the empty string are falsy
Falsy(k) == Tag(k) \in {"undef", "null"} \/ k = Str(<<>>)

----------------------------------------------------------------------------
(* normalizeNodeData: the edit text of a node's rows.  A row is            *)
(* [key, value, type]: key is a string or null, value a scalar.            *)

RECURSIVE ScalarFields(_, _, _)
\* the forEach of normalizeNodeData: obj after rows i..Len(rows)
ScalarFields(rows, i, ms) ==
  IF i > Len(rows) THEN ms
  ELSE ScalarFields(rows, i + 1,
         IF rows[i].type # "array" /\ rows[i].type # "object" /\ ~Falsy(rows[i].key)
         THEN SetMember(ms, rows[i].key[2], rows[i].value)
         ELSE ms)

normalizeNodeData(nodeRows) ==
  IF Len(nodeRows) = 0 THEN <<"{", "}">>
  ELSE IF Len(nodeRows) = 1 /\ Falsy(nodeRows[1].key)
       THEN TemplateText(nodeRows[1].value)
       ELSE JSONstringify(Obj(ScalarFields(nodeRows, 1, <<>>)))

----------------------------------------------------------------------------
(* Property access on JavaScript values.  A path segment is Num(n) or      *)
(* Str(chars); a result [ok, v] has ~ok for a thrown TypeError.            *)
(* Inherited properties (toString, __proto__, ...) are not modelled.       *)

Threw == [ok |-> FALSE, v |-> Undefined]
Returned(v) == [ok |-> TRUE, v |-> v]

\* ToPropertyKey(seg)
PropKey(seg) == IF Tag(seg) = "num" THEN IntToText(seg[2]) ELSE seg[2]

LengthKey == <<"l", "e", "n", "g", "t", "h">>

\* ptr[seg] read
GetProp(ptr, seg) ==
  LET k == PropKey(seg) IN
  CASE Tag(ptr) \in {"null", "undef"} -> Threw
    [] Tag(ptr) = "obj" ->
         IF HasKey(ptr[2], k) THEN Returned(ptr[2][KeyPos(ptr[2], k)][2])
         ELSE Returned(Undefined)
    [] Tag(ptr) = "arr" ->
         IF IsIndexKey(k) /\ TextToNat(k) < Len(ptr[2])
         THEN Returned(ptr[2][TextToNat(k) + 1])
         ELSE IF k = LengthKey THEN Returned(Num(Len(ptr[2])))
         ELSE Returned(Undefined)
    [] Tag(ptr) = "str" ->
         IF IsIndexKey(k) /\ TextToNat(k) < Len(ptr[2])
         THEN Returned(Str(<<ptr[2][TextToNat(k) + 1]>>))
         ELSE IF k = LengthKey THEN Returned(Num(Len(ptr[2])))
         ELSE Returned(Undefined)
    [] OTHER -> Returned(Undefined)

\* ptr[seg] = v in module (strict) code: the container afterwards, as
\* JSON.stringify will see it.  An index past the end of an array leaves
\* holes; a named property of an array is not serialized, so the array is
\* returned as it was; a primitive cannot take a property.
SetProp(ptr, seg, v) ==
  LET k == PropKey(seg) IN
  CASE Tag(ptr) = "obj" -> Returned(Obj(SetMember(ptr[2], k, v)))
    [] Tag(ptr) = "arr" ->
         IF IsIndexKey(k)
         THEN LET n == TextToNat(k) + 1
              IN Returned(Arr([i \in 1..(IF n > Len(ptr[2]) THEN n ELSE Len(ptr[2])) |->
                                 IF i = n THEN v
                                 ELSE IF i <= Len(ptr[2]) THEN ptr[2][i]
                                 ELSE Undefined]))
         ELSE IF k = LengthKey THEN Threw
         ELSE Returned(ptr)
    [] OTHER -> Threw

\* a container chosen as an array
EmptyArrayContainer == Arr(<<>>)

\* line 268: the container made for a segment that has no value
EmptyContainer == Obj(<<>>)

RECURSIVE WalkAndAssign(_, _, _)
\* lines 265-273: the walk over all segments but the last, creating {} where
\* typeof ptr[seg] is "undefined", then ptr[last] = newValue.  The in-place
\* change of the child is the container with the changed child put back.
WalkAndAssign(ptr, path, newValue) ==
  IF Len(path) = 1 THEN SetProp(ptr, path[1], newValue)
  ELSE LET seg == path[1]
           got == GetProp(ptr, seg)
           made == IF got.ok /\ got.v = Undefined
                   THEN SetProp(ptr, seg, EmptyContainer)
                   ELSE Returned(ptr)
           child == IF got.v = Undefined THEN EmptyContainer ELSE got.v
           sub == WalkAndAssign(child, Tail(path), newValue)
       IN IF ~got.ok \/ ~made.ok \/ ~sub.ok THEN Threw
          ELSE IF Tag(made.v) = "arr" /\ ~IsIndexKey(PropKey(seg))
               THEN Returned(made.v)
               ELSE SetProp(made.v, seg, sub.v)

\* a walk that stops at the first segment
ApplyAtFirstSegment(currentObj, path, newValue) ==
  IF Len(path) = 0 THEN Returned(newValue)
  ELSE SetProp(currentObj, path[1], newValue)

\* lines 260-274: newValue installed at path in currentObj
ApplyAtPath(currentObj, path, newValue) ==
  IF Len(path) = 0 THEN Returned(newValue)
  ELSE WalkAndAssign(currentObj, path, newValue)

----------------------------------------------------------------------------
(* Lines 216-257: the value an edited text stands for.  A result is        *)
(* [ok, v, msg]: ~ok carries the message handed to setError.               *)

Rejected(msg) == [ok |-> FALSE, v |-> Undefined, msg |-> msg]
Accepted(v) == [ok |-> TRUE, v |-> v, msg |-> ""]

\* line 216
IsLeaf(text) == Len(text) = 1 /\ Falsy(text[1].key)

\* lines 220-247: coercion of a leaf's text by the original type of the leaf
CoerceLeaf(leafType, raw) ==
  CASE leafType = "string" -> Accepted(Str(raw))
    [] leafType = "number" ->
         IF Number(raw) = NaN THEN Rejected("Invalid number")
         ELSE Accepted(Number(raw))
    [] leafType = "boolean" ->
         LET v == ToLowerCase(Trim(raw))
         IN IF v # <<"t", "r", "u", "e">> /\ v # <<"f", "a", "l", "s", "e">>
            THEN Rejected("Invalid boolean (must be true or false)")
            ELSE Accepted(Bool(v = <<"t", "r", "u", "e">>))
    [] leafType = "null" -> Accepted(Null)
    [] OTHER ->
         IF JSONparse(raw).ok THEN Accepted(JSONparse(raw).v)
         ELSE Accepted(Str(raw))

\* lines 216-257
NewValue(text, raw) ==
  IF IsLeaf(text) THEN CoerceLeaf(text[1].type, raw)
  ELSE IF JSONparse(raw).ok THEN Accepted(JSONparse(raw).v)
       ELSE Rejected("Invalid JSON for object/array node")

----------------------------------------------------------------------------
(* Inputs of the model: the documents the json store may hold at the       *)
(* start, the nodes the graph view may select, the texts a user may type.  *)

\* how many times the document may be replaced in one behaviour
MaxSaves == 1

Row(k, v, t) == [key |-> k, value |-> v, type |-> t]
Node(text, path) == [some |-> TRUE, text |-> text, path |-> path]
\* selectedNode = null
NoNode == [some |-> FALSE, text |-> <<>>, path |-> <<>>]

Customer == <<"c", "u", "s", "t", "o", "m", "e", "r">>

\* {"a": 1, "b": {"c": "x"}, "d": [true, null]}
SampleValue ==
  Obj(<< <<<<"a">>, Num(1)>>,
         <<<<"b">>, Obj(<< <<<<"c">>, Str(<<"x">>)>> >>)>>,
         <<<<"d">>, Arr(<<Bool(TRUE), Null>>)>> >>)

\* a text that is not JSON (an externally corrupted json store)
MalformedText == <<"{", "\"", "a", "\"", ":">>

InitDocs == {JSONstringify(SampleValue), MalformedText}

\* nodes of the sample document, as the graph view hands them over, and
\* nodes whose path does not (or no longer) address the document
Selections ==
  { Node(<<Row(Null, Num(1), "number")>>, <<Str(<<"a">>)>>),
    Node(<<Row(Null, Str(<<"x">>), "string")>>, <<Str(<<"b">>), Str(<<"c">>)>>),
    Node(<<Row(Null, Bool(TRUE), "boolean")>>, <<Str(<<"d">>), Num(0)>>),
    Node(<<Row(Null, Null, "null")>>, <<Str(<<"d">>), Num(1)>>),
    Node(<<Row(Str(<<"a">>), Num(1), "number"),
           Row(Str(<<"b">>), Str(<<"{", "1", "}">>), "object"),
           Row(Str(<<"d">>), Str(<<"[", "2", "]">>), "array")>>, <<>>),
    Node(<<Row(Str(<<"c">>), Str(<<"x">>), "string")>>, <<Str(<<"b">>)>>),
    Node(<<Row(Null, Str(<<"{", "}">>), "object")>>, <<Str(Customer), Num(0)>>),
    Node(<<Row(Null, Str(<<"x">>), "string")>>, <<Str(<<"a">>), Str(<<"c">>)>>),
    Node(<<Row(Str(<<>>), Num(1), "number"), Row(Str(<<"a">>), Num(2), "number")>>,
         <<Str(<<"b">>)>>) }

RawTexts ==
  { <<"4", "2">>,
    <<"a", "\"">>,
    <<>>,
    <<" ", "T", "r", "u", "e">>,
    InfinityText,
    <<"{", "\"", "a", "\"", ":", "2", "}">> }

\* what the user types into the text pane: a document, and a text that is
\* not JSON
EditorTexts ==
  { <<"{", "\"", "z", "\"", ":", "5", "}">>,
    MalformedText }

\* the text pane's Save is clicked at most MaxTextSaves times
MaxTextSaves == 1

\* no Save of the text pane is waiting
NoSave == [some |-> FALSE, contents |-> <<>>]

\* the store setter of lines 280-285 that throws in a save: none (0),
\* setJson (1) or setGraph (3)
FailPoints == {0, 1, 3}

----------------------------------------------------------------------------
(* State *)

VARIABLES
  json,          \* useJson: the authoritative document text
  contents,      \* useFile: the text editor's contents
  hasChanges,    \* useFile: the unsaved-changes flag
  graph,         \* useGraph: the text the graph was last built from
  selectedNode,  \* useGraph: the selected node, or NoNode
  opened,        \* the modal's opened flag
  editing,       \* NodeModal state
  edited,        \* NodeModal state
  error,         \* NodeModal state: Null or <<"msg", message>>
  saves,         \* how many times the modal replaced the document
  pending,       \* the text pane's Save between its await and its writes
  textSaves,     \* how many times the text pane's Save was clicked
  replaced,      \* history: the text pane replaced the document since Edit
  done           \* the last handler that ran: [op, outcome, calls, value]

vars == <<json, contents, hasChanges, graph, selectedNode, opened,
          editing, edited, error, saves, pending, textSaves, replaced, done>>

Msg(m) == <<"msg", m>>

\* the session as a handler finds it
Session == IF ~editing THEN "viewing" ELSE IF error = Null THEN "editing" ELSE "failed"

\* what the last handler did: was is the session it found; outcome and value
\* are set by a save only; calls lists the store setters that returned
Did(op) ==
  [op |-> op, was |-> Session, outcome |-> "", calls |-> <<>>, value |-> Undefined]

Init ==
  /\ json \in InitDocs
  /\ contents = json
  /\ hasChanges = FALSE
  /\ graph = json
  /\ selectedNode = NoNode
  /\ opened = FALSE
  /\ editing = FALSE
  /\ edited = <<>>
  /\ error = Null
  /\ saves = 0
  /\ pending = NoSave
  /\ textSaves = 0
  /\ replaced = FALSE
  /\ done = [op |-> "init", was |-> "viewing", outcome |-> "", calls |-> <<>>,
             value |-> Undefined]

----------------------------------------------------------------------------
(* TextEditor *)

\* contentToJson(contents, format) of lib/utils/jsonAdapter for the JSON
\* format: the promise resolves with the value the text denotes and is
\* rejected when the text is not JSON
contentToJson(text) == JSONparse(text)

\* line 124: the Editor's onChange; the store's flag is set, which brings up
\* the Save button of line 84; skipUpdate keeps the json store as it is.
\* The user types until the last Save of the text pane has written.
editorChange(text) ==
  /\ textSaves < MaxTextSaves \/ pending.some
  /\ text # contents
  /\ contents' = text
  /\ hasChanges' = TRUE
  /\ done' = Did("type")
  /\ UNCHANGED <<json, graph, selectedNode, opened, editing, edited, error,
                 saves, pending, textSaves, replaced>>

\* lines 91-95: the Save button, rendered while getHasChanges() (line 84).
\* The handler reads the contents of its render and waits for contentToJson.
textSaveClick ==
  /\ hasChanges
  /\ ~pending.some
  /\ textSaves < MaxTextSaves
  /\ pending' = [some |-> TRUE, contents |-> contents]
  /\ textSaves' = textSaves + 1
  /\ done' = Did("textSaveClick")
  /\ UNCHANGED <<json, contents, hasChanges, graph, selectedNode, opened,
                 editing, edited, error, saves, replaced>>

\* a catch that still stores the contents and clears the flag
TextSaveFailedClearsFlag ==
  /\ done' = [Did("textSave") EXCEPT !.outcome = "failed"]
  /\ contents' = pending.contents
  /\ hasChanges' = FALSE
  /\ UNCHANGED json

\* lines 102-105: the promise was rejected; toast.error
TextSaveFailed ==
  /\ done' = [Did("textSave") EXCEPT !.outcome = "failed"]
  /\ UNCHANGED <<json, contents, hasChanges>>

\* lines 96-101: setJson, setContents, setHasChanges, toast.success
TextSaveWrites(parsed) ==
  /\ json' = JSONstringify(parsed)
  /\ contents' = pending.contents
  /\ hasChanges' = FALSE
  /\ done' = [Did("textSave") EXCEPT !.outcome = "saved",
                                     !.calls = <<"setJson", "setContents", "setHasChanges">>]

\* lines 95-105: the handler goes on when the promise settles
textSaveResume ==
  LET parsed == contentToJson(pending.contents) IN
  /\ pending.some
  /\ pending' = NoSave
  /\ IF parsed.ok THEN TextSaveWrites(parsed.v) ELSE TextSaveFailed
  /\ replaced' = (replaced \/ (editing /\ parsed.ok))
  /\ UNCHANGED <<graph, selectedNode, opened, editing, edited, error, saves,
                 textSaves>>

----------------------------------------------------------------------------
(* NodeModal *)

\* a formatter that quotes every segment, numbers too
QuoteEverySegment(seg) ==
  IF Tag(seg) = "num" THEN Str(<<"\"">> \o IntToText(seg[2]) \o <<"\"">>)
  ELSE Str(<<"\"">> \o seg[2] \o <<"\"">>)

\* the quoting of a string segment (line 175)
QuoteSegment(seg) ==
  IF Tag(seg) = "num" THEN seg ELSE Str(<<"\"">> \o seg[2] \o <<"\"">>)

\* the text of an array element as join writes it
ElementText(v) == IF Tag(v) = "num" THEN IntToText(v[2]) ELSE v[2]

RECURSIVE Join(_, _)
\* Array.prototype.join
Join(elems, sep) ==
  IF Len(elems) = 0 THEN <<>>
  ELSE IF Len(elems) = 1 THEN ElementText(elems[1])
  ELSE ElementText(elems[1]) \o sep \o Join(Tail(elems), sep)

\* lines 173-177.  path is <<>> for an absent path and <<p>> for the path p
jsonPathToString(path) ==
  IF Len(path) = 0 \/ Len(path[1]) = 0 THEN <<"$">>
  ELSE LET segments == [i \in 1..Len(path[1]) |-> QuoteSegment(path[1][i])]
       IN <<"$", "[">> \o Join(segments, <<"]", "[">>) \o <<"]">>

\* line 352: the path shown in the modal, jsonPathToString(nodeData?.path)
RenderedPath ==
  jsonPathToString(IF selectedNode.some THEN <<selectedNode.path>> ELSE <<>>)

\* a reset that forgets to clear the edit text
ResetKeepsText ==
  /\ editing' = FALSE
  /\ edited' = edited
  /\ error' = Null

\* lines 191-196: the effect on [nodeData, opened]
ResetSession ==
  /\ editing' = FALSE
  /\ edited' = <<>>
  /\ error' = Null

\* the graph view selects another node (useGraph.setSelectedNode); it does
\* so until the document has been replaced MaxSaves times
selectNode(node) ==
  /\ saves < MaxSaves
  /\ node # selectedNode
  /\ selectedNode' = node
  /\ ResetSession
  /\ done' = Did("selectNode")
  /\ UNCHANGED <<json, contents, hasChanges, graph, opened, saves>>
  /\ UNCHANGED <<pending, textSaves, replaced>>

\* the modal is opened for the selected node (a click on a node of the graph)
openModal ==
  /\ ~opened /\ selectedNode.some
  /\ opened' = TRUE
  /\ ResetSession
  /\ done' = Did("open")
  /\ UNCHANGED <<json, contents, hasChanges, graph, selectedNode, saves>>
  /\ UNCHANGED <<pending, textSaves, replaced>>

\* onClose
closeModal ==
  /\ opened
  /\ opened' = FALSE
  /\ ResetSession
  /\ done' = Did("close")
  /\ UNCHANGED <<json, contents, hasChanges, graph, selectedNode, saves>>
  /\ UNCHANGED <<pending, textSaves, replaced>>

\* lines 198-202; the Edit button is rendered while ~editing (line 315)
handleEdit ==
  /\ opened /\ ~editing
  /\ edited' = normalizeNodeData(selectedNode.text)
  /\ editing' = TRUE
  /\ error' = Null
  /\ replaced' = FALSE
  /\ done' = Did("edit")
  /\ UNCHANGED <<json, contents, hasChanges, graph, selectedNode, opened, saves,
                 pending, textSaves>>

\* line 343: the Textarea's onChange
changeEdited(raw) ==
  /\ opened /\ editing
  /\ raw # edited
  /\ edited' = raw
  /\ done' = Did("change")
  /\ UNCHANGED <<json, contents, hasChanges, graph, selectedNode, opened,
                 editing, error, saves>>
  /\ UNCHANGED <<pending, textSaves, replaced>>

\* a cancel that leaves the error message standing
handleCancelKeepsError ==
  /\ opened /\ editing
  /\ editing' = FALSE
  /\ edited' = <<>>
  /\ error' = error
  /\ done' = Did("cancel")
  /\ UNCHANGED <<json, contents, hasChanges, graph, selectedNode, opened, saves>>
  /\ UNCHANGED <<pending, textSaves, replaced>>

\* lines 300-304; Cancel is rendered while editing (line 320)
handleCancel ==
  /\ opened /\ editing
  /\ editing' = FALSE
  /\ edited' = <<>>
  /\ error' = Null
  /\ done' = Did("cancel")
  /\ UNCHANGED <<json, contents, hasChanges, graph, selectedNode, opened, saves>>
  /\ UNCHANGED <<pending, textSaves, replaced>>

\* line 205: no node is selected
SaveSkipped ==
  /\ done' = [Did("save") EXCEPT !.outcome = "noNode"]
  /\ UNCHANGED <<json, contents, hasChanges, graph, selectedNode,
                 editing, edited, error, saves>>

\* a failure path that forgets the message
SaveFailedSilently(outcome, msg) ==
  /\ done' = [Did("save") EXCEPT !.outcome = outcome]
  /\ UNCHANGED <<json, contents, hasChanges, graph, selectedNode,
                 editing, edited, error, saves>>

\* a failure path that also drops the text being edited
SaveFailedClearsText(outcome, msg) ==
  /\ error' = Msg(msg)
  /\ edited' = <<>>
  /\ done' = [Did("save") EXCEPT !.outcome = outcome]
  /\ UNCHANGED <<json, contents, hasChanges, graph, selectedNode, editing, saves>>

\* a failure path that shows the message and leaves the editing mode
SaveFailedLeavesEditing(outcome, msg) ==
  /\ error' = Msg(msg)
  /\ editing' = FALSE
  /\ done' = [Did("save") EXCEPT !.outcome = outcome]
  /\ UNCHANGED <<json, contents, hasChanges, graph, selectedNode, edited, saves>>

\* lines 212-213, 227-228, 234-235, 254-255: setError(msg); return
SaveFailed(outcome, msg) ==
  /\ error' = Msg(msg)
  /\ done' = [Did("save") EXCEPT !.outcome = outcome]
  /\ UNCHANGED <<json, contents, hasChanges, graph, selectedNode,
                 editing, edited, saves>>

\* a TypeError of lines 265-273 leaves the handler: nothing is set
SaveThrew(newValue) ==
  /\ done' = [Did("save") EXCEPT !.outcome = "threw", !.value = newValue]
  /\ UNCHANGED <<json, contents, hasChanges, graph, selectedNode,
                 editing, edited, error, saves>>

\* the setters of lines 280-285, in the order they are called
Setters == <<"setJson", "setContents", "setGraph", "setSelectedNode">>

\* a push that builds the graph from the text the modal was rendered with
PushDocumentStaleGraph(newJsonStr, newValue, failAt) ==
  LET returned == IF failAt = 0 THEN Len(Setters) ELSE failAt - 1 IN
  /\ returned >= 1 => saves < MaxSaves
  /\ json' = IF returned >= 1 THEN newJsonStr ELSE json
  /\ saves' = IF returned >= 1 THEN saves + 1 ELSE saves
  /\ contents' = IF returned >= 2 THEN newJsonStr ELSE contents
  /\ hasChanges' = IF returned >= 2 THEN TRUE ELSE hasChanges
  /\ graph' = IF returned >= 3 THEN json ELSE graph
  /\ selectedNode' = IF returned >= 4 THEN NoNode ELSE selectedNode
  /\ editing' = (failAt # 0)
  /\ edited' = IF failAt = 0 THEN <<>> ELSE edited
  /\ error' = IF failAt = 0 THEN Null ELSE Msg("Failed to apply changes")
  /\ done' = [Did("save") EXCEPT
                !.outcome = IF failAt = 0 THEN "saved" ELSE "applyFailed",
                !.calls = SubSeq(Setters, 1, returned),
                !.value = newValue]

\* lines 278-293: the new text is pushed to the stores.  failAt is the
\* setter that throws (0: none); the setters before it have returned, and
\* the catch of lines 286-289 sets the error.  Clearing the selection runs
\* the reset effect, which sets what lines 291-293 set.
PushDocument(newJsonStr, newValue, failAt) ==
  LET returned == IF failAt = 0 THEN Len(Setters) ELSE failAt - 1 IN
  /\ returned >= 1 => saves < MaxSaves
  /\ json' = IF returned >= 1 THEN newJsonStr ELSE json
  /\ saves' = IF returned >= 1 THEN saves + 1 ELSE saves
  /\ contents' = IF returned >= 2 THEN newJsonStr ELSE contents
  /\ hasChanges' = IF returned >= 2 THEN TRUE ELSE hasChanges
  /\ graph' = IF returned >= 3 THEN newJsonStr ELSE graph
  /\ selectedNode' = IF returned >= 4 THEN NoNode ELSE selectedNode
  /\ editing' = (failAt # 0)
  /\ edited' = IF failAt = 0 THEN <<>> ELSE edited
  /\ error' = IF failAt = 0 THEN Null ELSE Msg("Failed to apply changes")
  /\ done' = [Did("save") EXCEPT
                !.outcome = IF failAt = 0 THEN "saved" ELSE "applyFailed",
                !.calls = SubSeq(Setters, 1, returned),
                !.value = newValue]

\* a save that works on the text the graph was built from instead of the
\* json store's text
applyEditToStaleJson(raw) ==
  LET parsed == JSONparse(graph)
      nv == NewValue(selectedNode.text, raw)
      applied == ApplyAtPath(parsed.v, selectedNode.path, nv.v)
      newJsonStr == JSONstringify(applied.v)
  IN IF ~selectedNode.some THEN SaveSkipped
     ELSE IF ~parsed.ok
          THEN SaveFailed("malformed", "Failed to parse current JSON document.")
     ELSE IF ~nv.ok THEN SaveFailed("rejected", nv.msg)
     ELSE IF ~applied.ok THEN SaveThrew(nv.v)
     ELSE \E failAt \in FailPoints : PushDocument(newJsonStr, nv.v, failAt)

\* lines 204-294: applyEditToJson(raw)
applyEditToJson(raw) ==
  LET parsed == JSONparse(json)
      nv == NewValue(selectedNode.text, raw)
      applied == ApplyAtPath(parsed.v, selectedNode.path, nv.v)
      newJsonStr == JSONstringify(applied.v)
  IN IF ~selectedNode.some THEN SaveSkipped
     ELSE IF ~parsed.ok
          THEN SaveFailed("malformed", "Failed to parse current JSON document.")
     ELSE IF ~nv.ok THEN SaveFailed("rejected", nv.msg)
     ELSE IF ~applied.ok THEN SaveThrew(nv.v)
     ELSE \E failAt \in FailPoints : PushDocument(newJsonStr, nv.v, failAt)

\* lines 296-298; Save is rendered while editing (line 320)
handleSave ==
  /\ opened /\ editing
  /\ applyEditToJson(edited)
  /\ UNCHANGED <<opened, pending, textSaves, replaced>>

Next ==
  \/ \E node \in Selections : selectNode(node)
  \/ openModal
  \/ closeModal
  \/ handleEdit
  \/ \E raw \in RawTexts : changeEdited(raw)
  \/ handleSave
  \/ handleCancel

\* the modal alone, the text pane left idle
Spec == Init /\ [][Next]_vars

\* the nodes and the texts the modal is given beside a text pane in use
PaneSelections ==
  { Node(<<Row(Null, Num(1), "number")>>, <<Str(<<"a">>)>>),
    Node(<<Row(Str(<<"c">>), Str(<<"x">>), "string")>>, <<Str(<<"b">>)>>) }

PaneRawTexts ==
  { <<"4", "2">>,
    <<"{", "\"", "a", "\"", ":", "2", "}">> }

NextEditor ==
  \/ \E node \in PaneSelections : selectNode(node)
  \/ openModal
  \/ closeModal
  \/ handleEdit
  \/ \E raw \in PaneRawTexts : changeEdited(raw)
  \/ handleSave
  \/ handleCancel
  \/ \E text \in EditorTexts : editorChange(text)
  \/ textSaveClick
  \/ textSaveResume

\* the modal and the text pane
SpecEditor == Init /\ [][NextEditor]_vars

----------------------------------------------------------------------------
(* Properties *)

RECURSIVE ReadAt(_, _)
\* the value found by following path from v, Undefined where it leads nowhere
ReadAt(v, path) ==
  IF Len(path) = 0 THEN v
  ELSE IF Tag(v) \in {"obj", "arr"} /\ GetProp(v, path[1]).v # Undefined
       THEN ReadAt(GetProp(v, path[1]).v, Tail(path))
       ELSE Undefined

RECURSIVE ValidPath(_, _)
\* path addresses a node of v: a key of an object, an index of an array
ValidPath(v, path) ==
  IF Len(path) = 0 THEN TRUE
  ELSE LET seg == path[1] IN
       CASE Tag(v) = "obj" ->
              /\ Tag(seg) = "str"
              /\ HasKey(v[2], seg[2])
              /\ ValidPath(v[2][KeyPos(v[2], seg[2])][2], Tail(path))
         [] Tag(v) = "arr" ->
              /\ Tag(seg) = "num"
              /\ seg[2] >= 0 /\ seg[2] < Len(v[2])
              /\ ValidPath(v[2][seg[2] + 1], Tail(path))
         [] OTHER -> FALSE

RECURSIVE IsJSONValue(_)
\* a value JSON can write: no infinity, NaN or undefined in it
IsJSONValue(v) ==
  CASE Tag(v) \in {"null", "bool", "num", "str"} -> TRUE
    [] Tag(v) = "arr" -> \A i \in 1..Len(v[2]) : IsJSONValue(v[2][i])
    [] Tag(v) = "obj" -> \A i \in 1..Len(v[2]) : IsJSONValue(v[2][i][2])
    [] OTHER -> FALSE

\* the last step was a save that ran to its end
Saved == done.op = "save" /\ done.outcome = "saved"

\* C1: round trip of the mutation.  When a save installs a JSON value v at
\* the path P of the selected node, P being valid in the parsed document
\* (the empty path included), the new document text parses and its value
\* at P is v.
C1_RoundTrip ==
  [][ ( /\ Saved'
        /\ JSONparse(json).ok
        /\ ValidPath(JSONparse(json).v, selectedNode.path)
        /\ IsJSONValue(done'.value) )
      => ( /\ JSONparse(json').ok
           /\ ReadAt(JSONparse(json').v, selectedNode.path) = done'.value ) ]_vars

\* C1 witness: {"a": 2} was installed at ["b"], below the root, and is read
\* back there; the rest of the document is still around it
C1_Witness ==
  /\ Saved
  /\ done.value = Obj(<< <<<<"a">>, Num(2)>> >>)
  /\ JSONparse(json).ok
  /\ ReadAt(JSONparse(json).v, <<Str(<<"b">>)>>) = done.value
  /\ ReadAt(JSONparse(json).v, <<Str(<<"a">>)>>) = Num(1)

\* no store setter ran in the step and the stores hold what they held
StoresUntouched ==
  /\ done'.calls = <<>>
  /\ json' = json
  /\ contents' = contents
  /\ hasChanges' = hasChanges
  /\ graph' = graph

\* C2: a save while the json store's text does not parse invokes no
\* document setter, sets the message of the malformed document, keeps the
\* edited text and leaves the session editing.
C2_MalformedDocument ==
  [][ (done'.op = "save" /\ ~JSONparse(json).ok)
      => ( /\ StoresUntouched
           /\ error' = Msg("Failed to parse current JSON document.")
           /\ edited' = edited
           /\ editing' ) ]_vars

\* C2 witness: the malformed-document message stands beside a typed text
C2_Witness ==
  /\ done.op = "save" /\ done.outcome = "malformed"
  /\ ~JSONparse(json).ok
  /\ selectedNode.some
  /\ error = Msg("Failed to parse current JSON document.")
  /\ editing /\ edited = <<"4", "2">>

\* C3: a save whose edited text is rejected keeps the text as typed, sets a
\* non-empty message, stays editing, keeps the selection and touches no
\* store.
C3_RejectedEdit ==
  [][ (done'.op = "save" /\ done'.outcome = "rejected")
      => ( /\ edited' = edited
           /\ error' \in { Msg("Invalid number"),
                           Msg("Invalid boolean (must be true or false)"),
                           Msg("Invalid JSON for object/array node") }
           /\ editing'
           /\ selectedNode' = selectedNode /\ selectedNode'.some
           /\ StoresUntouched ) ]_vars

\* C3 witness: the text a" was refused for a number leaf and is still there
C3_Witness ==
  /\ done.op = "save" /\ done.outcome = "rejected"
  /\ selectedNode.some /\ IsLeaf(selectedNode.text)
  /\ selectedNode.text[1].type = "number"
  /\ edited = <<"a", "\"">>
  /\ error = Msg("Invalid number")
  /\ editing

\* C4: cancel, from any editing session, touches no store, keeps the
\* selection, drops edit text and error and ends viewing.
C4_Cancel ==
  [][ done'.op = "cancel"
      => ( /\ editing
           /\ StoresUntouched
           /\ selectedNode' = selectedNode
           /\ ~editing' /\ edited' = <<>> /\ error' = Null ) ]_vars

\* C4 witness: a session that showed an error was cancelled
C4_Witness ==
  /\ done.op = "cancel" /\ done.was = "failed"
  /\ selectedNode.some
  /\ ~editing /\ edited = <<>> /\ error = Null

\* C5: a successful save hands one new text to the json store, the text
\* editor and the graph, in that order, then clears the selection, and ends
\* viewing with no edit text and no error; the text is pretty-printed JSON.
C5_SuccessfulSave ==
  [][ Saved'
      => ( /\ done'.calls = <<"setJson", "setContents", "setGraph", "setSelectedNode">>
           /\ contents' = json' /\ graph' = json'
           /\ JSONparse(json').ok
           /\ json' = JSONstringify(JSONparse(json').v)
           /\ selectedNode' = NoNode
           /\ ~editing' /\ edited' = <<>> /\ error' = Null ) ]_vars

\* C5 witness: a save replaced the initial document in all three stores
C5_Witness ==
  /\ Saved
  /\ json \notin InitDocs
  /\ contents = json /\ graph = json
  /\ selectedNode = NoNode
  /\ ~editing

\* C6: when the selection or the opened flag changes, the session is viewing
\* with no edit text and no error afterwards, whatever it was; unless the
\* change is the clearing done by a save, no store is touched.
C6_ResetOnChange ==
  [][ (selectedNode' # selectedNode \/ opened' # opened)
      => ( /\ ~editing' /\ edited' = <<>> /\ error' = Null
           /\ (done'.op # "save" => StoresUntouched) ) ]_vars

\* C6 witness: another node was selected while a session showed an error
C6_Witness ==
  /\ done.op = "selectNode" /\ done.was = "failed"
  /\ opened /\ selectedNode.some
  /\ ~editing /\ edited = <<>> /\ error = Null

\* C7: every save request that does not end with the new document installed
\* ends with an error message set and the session editing.
C7_NoSilentFailure ==
  [][ (done'.op = "save" /\ ~Saved')
      => (error' # Null /\ editing') ]_vars

\* the save of the step reached the path walk with value v
CoercedTo(v) ==
  /\ done'.outcome \in {"saved", "applyFailed", "threw"}
  /\ done'.value = v

\* the save of the step refused the text with message msg
RefusedWith(msg) ==
  /\ done'.outcome = "rejected"
  /\ error' = Msg(msg)
  /\ json' = json

\* a text that reads as a number: an optional sign, then digits or Infinity,
\* white space around it allowed
IsNumberText(raw) ==
  LET t == Trim(raw)
      body == IF Len(t) > 0 /\ t[1] \in {"+", "-"} THEN Tail(t) ELSE t
  IN body = InfinityText \/ (Len(body) > 0 /\ \A i \in 1..Len(body) : IsDigit(body[i]))

\* the number such a text reads as
NumberOfText(raw) ==
  LET t == Trim(raw)
      neg == t[1] = "-"
      body == IF t[1] \in {"+", "-"} THEN Tail(t) ELSE t
  IN IF body = InfinityText THEN (IF neg THEN NegInfinity ELSE Infinity)
     ELSE Num(IF neg THEN 0 - TextToNat(body) ELSE TextToNat(body))

TrueText == <<"t", "r", "u", "e">>
FalseText == <<"f", "a", "l", "s", "e">>

\* C8: a leaf's edited text is coerced by the declared type of the leaf.
\* string: the text itself; number: its numeric value, InvalidNumber when
\* the text is not a number; boolean: true or false after trim and
\* lowercase, InvalidBoolean otherwise; null: null; any other type: the
\* JSON parse of the text, or the text as a string, never a failure.
C8_LeafCoercion ==
  [][ ( /\ done'.op = "save"
        /\ selectedNode.some
        /\ JSONparse(json).ok
        /\ Len(selectedNode.text) = 1
        /\ selectedNode.text[1].key = Null )
      => LET type == selectedNode.text[1].type
             low == ToLowerCase(Trim(edited))
         IN CASE type = "string" -> CoercedTo(Str(edited))
              [] type = "number" ->
                   IF IsNumberText(edited) THEN CoercedTo(NumberOfText(edited))
                   ELSE RefusedWith("Invalid number")
              [] type = "boolean" ->
                   IF low = TrueText THEN CoercedTo(Bool(TRUE))
                   ELSE IF low = FalseText THEN CoercedTo(Bool(FALSE))
                   ELSE RefusedWith("Invalid boolean (must be true or false)")
              [] type = "null" -> CoercedTo(Null)
              [] OTHER ->
                   IF JSONparse(edited).ok THEN CoercedTo(JSONparse(edited).v)
                   ELSE CoercedTo(Str(edited)) ]_vars

\* C9: auto-vivification.  A save at a two-segment path whose first segment
\* has no value in the document object puts there an object (never an
\* array) whose one member is the second segment, a number written as its
\* decimal key, holding the value; the members the document had stay.
C9_AutoVivification ==
  [][ ( /\ Saved'
        /\ JSONparse(json).ok
        /\ Len(selectedNode.path) = 2
        /\ IsObj(JSONparse(json).v)
        /\ ~HasKey(JSONparse(json).v[2], PropKey(selectedNode.path[1]))
        /\ IsJSONValue(done'.value) )
      => LET old == JSONparse(json).v
             new == JSONparse(json').v
             first == selectedNode.path[1]
             second == selectedNode.path[2]
         IN /\ JSONparse(json').ok /\ IsObj(new)
            /\ ReadAt(new, <<first>>) = Obj(<< <<PropKey(second), done'.value>> >>)
            /\ Len(new[2]) = Len(old[2]) + 1
            /\ \A i \in 1..Len(old[2]) :
                 ReadAt(new, <<Str(old[2][i][1])>>) = old[2][i][2] ]_vars

\* C9 witness: 42 saved at ["customer", 0] sits under the key "0" of an
\* object made at customer
C9_Witness ==
  /\ Saved
  /\ JSONparse(json).ok
  /\ ReadAt(JSONparse(json).v, <<Str(Customer)>>) = Obj(<< <<<<"0">>, Num(42)>> >>)
  /\ ReadAt(JSONparse(json).v, <<Str(<<"a">>)>>) = Num(1)

\* the rows of a node that have a key and hold a scalar
KeyedScalarRows(rows) ==
  {i \in 1..Len(rows) : Tag(rows[i].key) = "str" /\ rows[i].type \notin {"object", "array"}}

\* C10: the edit text of a selection.  No rows: the empty object; one row
\* without a key: its value as plain text, unquoted; any other rows:
\* pretty-printed JSON of the mapping holding exactly the keyed rows whose
\* type is neither object nor array.
C10_Projection ==
  done.op = "edit"
  => LET rows == selectedNode.text
         p == JSONparse(edited)
     IN IF Len(rows) = 0 THEN edited = <<"{", "}">>
        ELSE IF Len(rows) = 1 /\ rows[1].key = Null
        THEN edited = (IF Tag(rows[1].value) = "str" THEN rows[1].value[2]
                       ELSE JSONstringify(rows[1].value))
        ELSE /\ p.ok /\ IsObj(p.v)
             /\ edited = JSONstringify(p.v)
             /\ {p.v[2][i] : i \in 1..Len(p.v[2])}
                  = {<<rows[i].key[2], rows[i].value>> : i \in KeyedScalarRows(rows)}

\* the last step was a save, of the modal or of the text pane, that failed
FailedSave == done.op \in {"save", "textSave"} /\ done.outcome # "saved"

\* C11: the json store's text stays valid JSON.  From a text that parses,
\* every step (Edit, typing, a save that succeeds or fails, Cancel, a
\* selection, a save of the text pane) leaves a text that parses, and a
\* save that fails leaves the text it found.
C11_ValidDocument ==
  [][ /\ JSONparse(json).ok => JSONparse(json').ok
      /\ FailedSave' => json' = json ]_vars

RECURSIVE Bracketed(_)
\* one bracket pair for each segment, in order: a string segment in double
\* quotes, an integer segment bare
Bracketed(path) ==
  IF Len(path) = 0 THEN <<>>
  ELSE LET seg == path[1]
           inner == IF Tag(seg) = "num" THEN IntToText(seg[2])
                    ELSE <<"\"">> \o seg[2] \o <<"\"">>
       IN <<"[">> \o inner \o <<"]">> \o Bracketed(Tail(path))

\* C12: the path shown for the selection is $ for the empty path and for
\* no selection, and otherwise $ followed by one bracket pair for each
\* segment in order, string segments quoted and integer segments bare; the
\* path ["a", 0] is shown as $["a"][0].
C12_FormatPath ==
  /\ RenderedPath = (IF selectedNode.some THEN <<"$">> \o Bracketed(selectedNode.path)
                     ELSE <<"$">>)
  /\ jsonPathToString(<< <<Str(<<"a">>), Num(0)>> >>)
       = <<"$", "[", "\"", "a", "\"", "]", "[", "0", "]">>

\* C12 witness: the modal shows $["d"][1] for the node at ["d", 1]
C12_Witness ==
  /\ opened /\ selectedNode.some
  /\ selectedNode.path = <<Str(<<"d">>), Num(1)>>
  /\ RenderedPath = <<"$", "[", "\"", "d", "\"", "]", "[", "1", "]">>

\* the members of an object that hold an object or an array
ContainerMembers(v) ==
  {i \in 1..Len(v[2]) : Tag(v[2][i][2]) \in {"obj", "arr"}}

\* C13: a save of a composite node edits the scalar fields only.  Every
\* member of the addressed object that holds an object or an array is in
\* the new document under the same key with the same value, and a save of
\* the edit text as Edit seeded it leaves the document value as it was.
C13_CompositeFrame ==
  [][ ( /\ Saved'
        /\ ~IsLeaf(selectedNode.text)
        /\ JSONparse(json).ok
        /\ ValidPath(JSONparse(json).v, selectedNode.path)
        /\ IsObj(ReadAt(JSONparse(json).v, selectedNode.path)) )
      => LET old == JSONparse(json).v
             new == JSONparse(json').v
             node == ReadAt(old, selectedNode.path)
         IN /\ \A i \in ContainerMembers(node) :
                 ReadAt(new, selectedNode.path \o <<Str(node[2][i][1])>>) = node[2][i][2]
            /\ edited = normalizeNodeData(selectedNode.text) => new = old ]_vars

\* C14: the push of a save is all or nothing.  A save that ends with the
\* message of a failed push has changed none of the json store, the text
\* editor's contents, the graph and the selection; and no state shows that
\* message while the stores disagree about the text a save pushed.
C14_AllOrNothing ==
  [][ (done'.op = "save" /\ done'.outcome = "applyFailed")
      => ( /\ error' = Msg("Failed to apply changes") /\ editing'
           /\ json' = json
           /\ contents' = contents
           /\ graph' = graph
           /\ selectedNode' = selectedNode ) ]_vars

\* the JSON type of a value, as the rows of a node name it
JSONType(v) ==
  CASE Tag(v) = "str" -> "string"
    [] Tag(v) = "num" -> "number"
    [] Tag(v) = "bool" -> "boolean"
    [] Tag(v) = "null" -> "null"
    [] Tag(v) = "arr" -> "array"
    [] Tag(v) = "obj" -> "object"
    [] OTHER -> "undefined"

\* C15: the save of a leaf keeps its type.  For a leaf declared string,
\* number, boolean or null at a valid path, a save of the text as Edit
\* seeded it is not refused, and when it is installed the value at the
\* path is the leaf's original value; and after every successful save of
\* such a leaf the value at the path has the declared type.
C15_TypePreserved ==
  [][ ( /\ done'.op = "save"
        /\ selectedNode.some
        /\ IsLeaf(selectedNode.text)
        /\ selectedNode.text[1].type \in {"string", "number", "boolean", "null"}
        /\ JSONparse(json).ok
        /\ ValidPath(JSONparse(json).v, selectedNode.path) )
      => LET row == selectedNode.text[1]
             now == ReadAt(JSONparse(json').v, selectedNode.path)
         IN /\ edited = normalizeNodeData(selectedNode.text)
                 => ( /\ done'.outcome \in {"saved", "applyFailed"}
                      /\ Saved' => now = row.value )
            /\ Saved' => JSONType(now) = row.type ]_vars

\* the members of the object old, other than the one named by seg, are
\* members of the object new with the same values, and new has no others
OtherMembersKept(old, new, seg) ==
  /\ IsObj(new)
  /\ \A i \in 1..Len(old[2]) :
       old[2][i][1] # PropKey(seg) => ReadAt(new, <<Str(old[2][i][1])>>) = old[2][i][2]
  /\ \A i \in 1..Len(new[2]) :
       new[2][i][1] # PropKey(seg) => HasKey(old[2], new[2][i][1])

\* C16: a save works on the document text of the moment of the save.  When
\* the text pane has replaced the document since Edit was clicked, a
\* successful save leaves the replacing document with the value at the
\* path of the selection changed and nothing else: at the root the value
\* itself, below it the value at the path and every other member of the
\* replacing document as it was.
C16_CurrentDocument ==
  [][ (Saved' /\ replaced /\ IsJSONValue(done'.value))
      => LET cur == JSONparse(json).v
             new == JSONparse(json').v
             path == selectedNode.path
         IN /\ JSONparse(json).ok /\ JSONparse(json').ok
            /\ ReadAt(new, path) = done'.value
            /\ (Len(path) > 0 /\ IsObj(cur)) => OtherMembersKept(cur, new, path[1]) ]_vars

\* C16 witness: the text pane put {"z": 5} in place of the document while
\* the leaf at ["a"] was being edited; the save of 42 kept z and added a
C16_Witness ==
  /\ Saved /\ replaced
  /\ done.value = Num(42)
  /\ JSONparse(json).v = Obj(<< <<<<"z">>, Num(5)>>, <<<<"a">>, Num(42)>> >>)

\* C17: the Save of the text pane runs to its end before anything else.
\* While a Save is between its click and its writes, no keystroke of the
\* editor and no save of the modal runs; so when it has written, the
\* contents are the text the user typed last (the contents the writes
\* found) and the json store holds the serialization of those contents.
C17_AtomicTextSave ==
  [][ /\ pending.some => done'.op \notin {"type", "save"}
      /\ (done'.op = "textSave" /\ done'.outcome = "saved")
           => ( /\ contents' = contents
                /\ contentToJson(contents').ok
                /\ json' = JSONstringify(contentToJson(contents').v) ) ]_vars

RECURSIVE SameOutside(_, _, _)
\* old and new differ at most at path and below it: on the way to path
\* every object has the same keys in the same order and every array the
\* same length, and every member off the way has the same value
SameOutside(old, new, path) ==
  IF Len(path) = 0 THEN TRUE
  ELSE /\ Tag(new) = Tag(old)
       /\ Len(new[2]) = Len(old[2])
       /\ CASE Tag(old) = "obj" ->
                 \A i \in 1..Len(old[2]) :
                   /\ new[2][i][1] = old[2][i][1]
                   /\ IF old[2][i][1] = PropKey(path[1])
                      THEN SameOutside(old[2][i][2], new[2][i][2], Tail(path))
                      ELSE new[2][i][2] = old[2][i][2]
            [] Tag(old) = "arr" ->
                 \A i \in 1..Len(old[2]) :
                   IF IntToText(i - 1) = PropKey(path[1])
                   THEN SameOutside(old[2][i], new[2][i], Tail(path))
                   ELSE new[2][i] = old[2][i]
            [] OTHER -> FALSE

\* C18: a successful save at a non-empty path that is valid in the
\* document changes the value at the path only.  Every location that is
\* neither the path nor below it holds in the new document the value it
\* held in the old one, and the objects on the way to the path keep their
\* keys in their order.
C18_PathFrame ==
  [][ ( /\ Saved'
        /\ JSONparse(json).ok
        /\ Len(selectedNode.path) > 0
        /\ ValidPath(JSONparse(json).v, selectedNode.path) )
      => ( /\ JSONparse(json').ok
           /\ SameOutside(JSONparse(json).v, JSONparse(json').v, selectedNode.path) ) ]_vars

\* C18 witness: the text 42 was saved for the string at ["b", "c"]; a, the
\* other member of the root, and d are where and what they were
C18_Witness ==
  /\ Saved
  /\ done.value = Str(<<"4", "2">>)
  /\ JSONparse(json).v =
       Obj(<< <<<<"a">>, Num(1)>>,
              <<<<"b">>, Obj(<< <<<<"c">>, Str(<<"4", "2">>)>> >>)>>,
              <<<<"d">>, Arr(<<Bool(TRUE), Null>>)>> >>)

\* C19: the session of the modal.  While it is not editing, the edit text
\* is empty and there is no error, so an error is shown only while
\* editing; Save, Cancel and the typing of edit text happen only in an
\* editing session, and Edit only in a viewing one.
C19_SessionInvariant ==
  /\ ~editing => (edited = <<>> /\ error = Null)
  /\ done.op \in {"save", "cancel", "change"} => done.was \in {"editing", "failed"}
  /\ done.op = "edit" => done.was = "viewing"

\* C19 witness: a session that showed an error saved a corrected text and
\* is viewing again, with no text and no error
C19_Witness ==
  /\ Saved /\ done.was = "failed"
  /\ ~editing /\ edited = <<>> /\ error = Null

\* C20: a Save of the text pane whose contents cannot be converted to
\* JSON reports the error and changes nothing: the json store keeps its
\* text, the contents of the file store are not written and the
\* unsaved-changes flag stays as it is.
C20_TextSaveFailure ==
  [][ (done'.op = "textSave" /\ ~contentToJson(pending.contents).ok)
      => ( /\ done'.outcome = "failed" /\ done'.calls = <<>>
           /\ json' = json
           /\ contents' = contents
           /\ hasChanges' = hasChanges ) ]_vars

\* C20 witness: the Save of a text that is not JSON has failed; the json
\* store still holds the document, the flag is still set
C20_Witness ==
  /\ done.op = "textSave" /\ done.outcome = "failed"
  /\ contents = MalformedText
  /\ hasChanges
  /\ JSONparse(json).ok

====
